---- MODULE Spec2Model ----
(***************************************************************************)
(* A model of the Python code of matrix_factorization.ipynb: the Batch     *)
(* class, the DataIter class (constructor, generator __iter__, reset),     *)
(* max_id, the RMSE metric, and train with get_data.                       *)
(*                                                                         *)
(* Specifications: Spec is the life of a DataIter built from a sample      *)
(* ratings file (constructor, __iter__, next, reset); SpecParse is the     *)
(* constructor over files of well-formed and malformed lines; SpecStamp is *)
(* two constructions from files that differ in the timestamps; SpecIds is  *)
(* max_id and the constructor on one file; SpecRMSE is one call of RMSE, a *)
(* step per turn of its loop; SpecSwap is that call and then the call with *)
(* the arguments exchanged; SpecTrain is two calls of train.               *)
(*                                                                         *)
(* Text is modelled as sequences of one-character strings, so that         *)
(* line.strip().split('\t'), int() and float() are computed as the code    *)
(* computes them.  A parsed float is the exact decimal value of its        *)
(* literal, <<m, e>> standing for m / 10^e in lowest terms of 10.          *)
(***************************************************************************)
EXTENDS Integers, Sequences, FiniteSets, TLC

(***************************************************************************)
(* Bounds of the model.                                                    *)
(***************************************************************************)
MaxLines == 3
MaxRecords == 3
MaxBatch == 3
MaxLen == 2
MaxStampLines == 2

(***************************************************************************)
(* Text: str.strip(), str.split('\t'), int(), float().                     *)
(***************************************************************************)
TAB == "\t"
NL == "\n"
SP == " "
DigitChars == <<"0", "1", "2", "3", "4", "5", "6", "7", "8", "9">>
Digits == {DigitChars[i] : i \in 1..10}
DigitVal(c) == (CHOOSE i \in 1..10 : DigitChars[i] = c) - 1

IsSpace(c) == c \in {SP, TAB, NL}

SetMin(S) == CHOOSE x \in S : \A y \in S : x <= y
SetMax(S) == CHOOSE x \in S : \A y \in S : y <= x

\* str.strip(): leading and trailing whitespace removed (tabs included).
Strip(s) ==
  LET ns == {i \in 1..Len(s) : ~IsSpace(s[i])}
  IN  IF ns = {} THEN <<>> ELSE SubSeq(s, SetMin(ns), SetMax(ns))

\* str.split('\t'): the pieces between tabs; '' gives [''].
RECURSIVE SplitFrom(_, _, _)
SplitFrom(s, i, cur) ==
  IF i > Len(s) THEN <<cur>>
  ELSE IF s[i] = TAB THEN <<cur>> \o SplitFrom(s, i + 1, <<>>)
  ELSE SplitFrom(s, i + 1, Append(cur, s[i]))
Split(s) == SplitFrom(s, 1, <<>>)

RECURSIVE DigitsVal(_)
DigitsVal(d) ==
  IF d = <<>> THEN 0
  ELSE 10 * DigitsVal(SubSeq(d, 1, Len(d) - 1)) + DigitVal(d[Len(d)])

\* The literal without its sign, and the sign.
Unsigned(t) == IF t # <<>> /\ t[1] \in {"+", "-"} THEN SubSeq(t, 2, Len(t)) ELSE t
SignOf(t) == IF t # <<>> /\ t[1] = "-" THEN -1 ELSE 1

ParseFault == [ok |-> FALSE, val |-> 0]

\* int(tok): surrounding whitespace ignored, an optional sign, then digits
\* only; anything else raises ValueError.
ParseInt(tok) ==
  LET t == Strip(tok)
      u == Unsigned(t)
  IN  IF u # <<>> /\ \A i \in 1..Len(u) : u[i] \in Digits
      THEN [ok |-> TRUE, val |-> SignOf(t) * DigitsVal(u)]
      ELSE ParseFault

\* m / 10^e without trailing zeros of the fraction.
RECURSIVE Decimal(_, _)
Decimal(m, e) ==
  IF e > 0 /\ m % 10 = 0 THEN Decimal(m \div 10, e - 1) ELSE <<m, e>>

\* float(tok): surrounding whitespace ignored, an optional sign, digits with
\* at most one point and at least one digit; anything else raises
\* ValueError.  (Exponents, inf and nan need letters the model's files do
\* not hold.)
ParseFloat(tok) ==
  LET t == Strip(tok)
      u == Unsigned(t)
      pts == {i \in 1..Len(u) : u[i] = "."}
      ds == SelectSeq(u, LAMBDA c : c \in Digits)
      e == IF pts = {} THEN 0 ELSE Len(u) - SetMin(pts)
  IN  IF /\ ds # <<>>
         /\ Cardinality(pts) <= 1
         /\ \A i \in 1..Len(u) : u[i] \in Digits \cup {"."}
      THEN [ok |-> TRUE, val |-> Decimal(SignOf(t) * DigitsVal(ds), e)]
      ELSE ParseFault

(***************************************************************************)
(* DataIter.__init__                                                       *)
(***************************************************************************)
\* tks = line.strip().split('\t')
Tokens(line) == Split(Strip(line))

\* The test with a bug put in: only short lines are skipped.
SkippedIfShort(tks) == Len(tks) < 4

\* if len(tks) != 4: continue
Skipped(tks) == Len(tks) # 4

\* The record with a bug put in: the timestamp is parsed as well, and a
\* malformed one raises.
ParseRecordWithStamp(tks) ==
  LET u == ParseInt(tks[1])
      m == ParseInt(tks[2])
      s == ParseFloat(tks[3])
      t == ParseInt(tks[4])
  IN  IF u.ok /\ m.ok /\ s.ok /\ t.ok
      THEN [ok |-> TRUE, val |-> <<u.val, m.val, s.val>>]
      ELSE [ok |-> FALSE, val |-> <<>>]

\* (int(tks[0]), int(tks[1]), float(tks[2])); any ValueError propagates.
ParseRecord(tks) ==
  LET u == ParseInt(tks[1])
      m == ParseInt(tks[2])
      s == ParseFloat(tks[3])
  IN  IF u.ok /\ m.ok /\ s.ok
      THEN [ok |-> TRUE, val |-> <<u.val, m.val, s.val>>]
      ELSE [ok |-> FALSE, val |-> <<>>]

\* The loop with a bug put in: a line whose fields do not parse is skipped.
RECURSIVE ReadLinesSkipBad(_, _, _, _)
ReadLinesSkipBad(f, i, acc, org) ==
  IF i > Len(f) THEN [fault |-> FALSE, data |-> acc, origin |-> org]
  ELSE LET tks == Split(Strip(f[i]))
           r == IF Len(tks) = 4 THEN ParseRecord(tks) ELSE [ok |-> FALSE, val |-> <<>>]
       IN  IF r.ok
           THEN ReadLinesSkipBad(f, i + 1, Append(acc, r.val), Append(org, i))
           ELSE ReadLinesSkipBad(f, i + 1, acc, org)

\* for line in file(fname): ... self.data.append(...)
\* origin is a ghost: the line number each stored tuple was read from (the
\* identity of the tuple object).
RECURSIVE ReadLines(_, _, _, _)
ReadLines(f, i, acc, org) ==
  IF i > Len(f) THEN [fault |-> FALSE, data |-> acc, origin |-> org]
  ELSE LET tks == Tokens(f[i])
       IN  IF Skipped(tks) THEN ReadLines(f, i + 1, acc, org)
           ELSE LET r == ParseRecord(tks)
                IN  IF r.ok
                    THEN ReadLines(f, i + 1, Append(acc, r.val), Append(org, i))
                    ELSE [fault |-> TRUE, data |-> acc, origin |-> org]

\* self.provide_data = [('user', (batch_size, )), ('item', (batch_size, ))]
IterProvideData(bs) == << <<"user", <<bs>> >>, <<"item", <<bs>> >> >>
\* self.provide_label = [('score', (self.batch_size, ))]
IterProvideLabel(bs) == << <<"score", <<bs>> >> >>

\* DataIter(fname, batch_size) as a value: the object made from the lines f
\* of the file, or the ValueError that left the constructor.
NewDataIter(f, bs) ==
  LET r == ReadLines(f, 1, <<>>, <<>>)
  IN  IF r.fault THEN [fault |-> TRUE]
      ELSE [fault |-> FALSE, batch_size |-> bs, data |-> r.data,
            provide_data |-> IterProvideData(bs),
            provide_label |-> IterProvideLabel(bs)]

(***************************************************************************)
(* max_id                                                                  *)
(***************************************************************************)
\* max(a, b) of two integers.
Max(a, b) == IF a >= b THEN a ELSE b

\* The result with a bug put in: the largest ids themselves.
MaxIdReturnLargest(mu, mi) == <<mu, mi>>

\* return mu + 1, mi + 1
MaxIdReturn(mu, mi) == <<mu + 1, mi + 1>>

\* for line in file(fname): ... mu = max(mu, int(tks[0])); mi = max(mi,
\* int(tks[1])), from line i on; a ValueError of int() leaves max_id.
RECURSIVE MaxIdLines(_, _, _, _)
MaxIdLines(f, i, mu, mi) ==
  IF i > Len(f) THEN [st |-> "returned", value |-> MaxIdReturn(mu, mi)]
  ELSE LET tks == Tokens(f[i])
       IN  IF Skipped(tks) THEN MaxIdLines(f, i + 1, mu, mi)
           ELSE LET u == ParseInt(tks[1])
                    m == ParseInt(tks[2])
                IN  IF u.ok /\ m.ok
                    THEN MaxIdLines(f, i + 1, Max(mu, u.val), Max(mi, m.val))
                    ELSE [st |-> "fault"]

(***************************************************************************)
(* train, get_data                                                         *)
(***************************************************************************)
TrainBatchSize == 64
SpeedometerSpan == 20000

\* The assignment with a bug put in: the argument is kept.
BatchSizeKept(arg) == arg

\* batch_size = 64: the value of the local variable after the assignment,
\* arg being the argument passed.
BatchSizeAssigned(arg) == TrainBatchSize

\* mx.callback.Speedometer(batch_size, 20000/batch_size)
Speedometer(bs) == [batch_size |-> bs, frequent |-> SpeedometerSpan \div bs]

(***************************************************************************)
(* Batch, DataIter.__iter__, DataIter.reset                                *)
(***************************************************************************)
\* mx.nd.array(list): a one-dimensional array of the list's elements.
NDArray(l) == [shape |-> <<Len(l)>>, vals |-> l]

\* zip(names, arrays): as long as the shorter of the two.
ZipLen(a, b) == IF Len(a) <= Len(b) THEN Len(a) ELSE Len(b)

\* Batch.provide_data: [(n, x.shape) for n, x in zip(self.data_names, self.data)]
BatchProvideData(b) ==
  [i \in 1..ZipLen(b.data_names, b.data) |-> <<b.data_names[i], b.data[i].shape>>]
\* Batch.provide_label: [(n, x.shape) for n, x in zip(self.label_names, self.label)]
BatchProvideLabel(b) ==
  [i \in 1..ZipLen(b.label_names, b.label) |-> <<b.label_names[i], b.label[i].shape>>]

\* The bound with a bug put in: the last complete group is lost when the
\* records divide evenly.
NumBatchesShort(n, bs) == (n - 1) \div bs

\* range(len(self.data) / self.batch_size): Python 2 integer division.
NumBatches(n, bs) == n \div bs

\* The inner loop with a bug put in: one record short.
InnerRangeShort(bs) == 0..(bs - 2)

\* for i in range(self.batch_size)
InnerRange(bs) == 0..(bs - 1)

\* The index with a bug put in: consecutive groups overlap.
RecordIndexOverlap(k, bs, i) == k * (bs - 1) + i

\* j = k * self.batch_size + i
RecordIndex(k, bs, i) == k * bs + i

\* The loop variable with a bug put in: the loop starts over after its
\* second group.
NextKWrap(k) == IF k >= 1 THEN 0 ELSE k + 1

\* for k in range(...): the loop variable after a group.
NextK(k) == k + 1

\* The shuffle with a bug put in: positions drawn with replacement.
ShuffleOrdersWithReplacement(n) == [1..n -> 1..n]

\* random.shuffle(self.data): the orders it can leave the list in; order[j]
\* is the old position of the element now at j.
ShuffleOrders(n) == Permutations(1..n)

\* The names with a bug put in: the two data fields swapped.
DataNamesSwapped == <<"item", "user">>

\* data_names = ['user', 'item']; label_names = ['score']
DataNames == <<"user", "item">>
LabelNames == <<"score">>

\* A generator that __iter__ has just returned: its body has not run.
\* k is the loop variable (the group the next yield delivers) and nb the
\* length of the range, set when the body starts.  Ghosts: n_out counts the
\* batches yielded, dirty says reset was called since the generator was
\* made, seen holds the origins of the records delivered, twice says a
\* record was delivered in two batches, restart says a pass had delivered a
\* batch and reset had not been called since when the generator was made.
NewGenerator(r) ==
  [st |-> "created", k |-> 0, nb |-> 0, n_out |-> 0, dirty |-> FALSE,
   seen |-> {}, twice |-> FALSE, restart |-> r]

NoGen == [st |-> "none"]
NoBatch == [none |-> TRUE]

(***************************************************************************)
(* RMSE: floating-point values and the arithmetic the metric uses.         *)
(* A value is a finite number (an integer here: small integers are exact   *)
(* in binary floating point), NaN, or an infinity with its sign.           *)
(***************************************************************************)
Fin(v) == [k |-> "fin", v |-> v]
NaN == [k |-> "nan", v |-> 0]
Inf(sign) == [k |-> "inf", v |-> sign]

Sign(v) == IF v > 0 THEN 1 ELSE IF v < 0 THEN -1 ELSE 0

FNeg(a) == IF a.k = "nan" THEN a ELSE [a EXCEPT !.v = -a.v]
FAdd(a, b) ==
  IF a.k = "nan" \/ b.k = "nan" THEN NaN
  ELSE IF a.k = "inf" THEN (IF b.k = "inf" /\ b.v # a.v THEN NaN ELSE a)
  ELSE IF b.k = "inf" THEN b
  ELSE Fin(a.v + b.v)
FSub(a, b) == FAdd(a, FNeg(b))
FMul(a, b) ==
  IF a.k = "nan" \/ b.k = "nan" THEN NaN
  ELSE IF a.k = "inf" \/ b.k = "inf"
       THEN (IF a.v = 0 \/ b.v = 0 THEN NaN ELSE Inf(Sign(a.v) * Sign(b.v)))
  ELSE Fin(a.v * b.v)

RECURSIVE GCD(_, _)
GCD(a, b) == IF b = 0 THEN a ELSE GCD(b, a % b)

\* math.sqrt(ret / n) for a count n > 0 and ret a sum of squares: the root
\* of the fraction num/den in lowest terms, or NaN, or infinity.
SqrtOfMean(ret, n) ==
  IF ret.k # "fin" THEN ret
  ELSE LET g == GCD(ret.v, n)
       IN  [k |-> "sqrt", num |-> ret.v \div g, den |-> n \div g]

\* pred.flatten(): the rows of the array one after the other.
RECURSIVE Flatten(_)
Flatten(m) == IF m = <<>> THEN <<>> ELSE Head(m) \o Flatten(Tail(m))

\* The squared difference with a bug put in: the difference of the squares.
SquaredErrorOfSquares(a, b) == FSub(FMul(a, a), FMul(b, b))

\* The squared difference with a bug put in: the sum is squared.
SquaredErrorOfSum(a, b) == FMul(FAdd(a, b), FAdd(a, b))

\* (label[i] - pred[i]) * (label[i] - pred[i])
SquaredError(a, b) == FMul(FSub(a, b), FSub(a, b))

\* The loop bound with a bug put in: the loop stops at the shorter of the
\* two sequences.
LoopBoundShorter(lab, flat) == IF Len(flat) < Len(lab) THEN Len(flat) ELSE Len(lab)

\* range(len(label))
LoopBound(lab, flat) == Len(lab)

\* The count with a bug put in: n = 1.0 in place of n += 1.0.
NextCountSetToOne(n) == 1

\* n += 1.0
NextCount(n) == n + 1

\* pred[i] raises IndexError unless 0 <= i < len(pred).
InBounds(i, len) == i < len

RmseIdle == [pc |-> "idle"]

\* No call was made before the present one; train and max_id not called.
NoPrev == [none |-> TRUE]
TrainIdle == [pc |-> "idle"]
NoIds == [st |-> "none"]

(***************************************************************************)
(* Sample input.                                                           *)
(***************************************************************************)
RECURSIVE JoinTab(_)
JoinTab(fields) ==
  IF Len(fields) = 0 THEN <<>>
  ELSE IF Len(fields) = 1 THEN fields[1]
  ELSE fields[1] \o <<TAB>> \o JoinTab(Tail(fields))
MkLine(fields) == JoinTab(fields) \o <<NL>>

\* Lines a ratings file may hold: rows of the data set, rows of another
\* shape, rows with a field that is no number, rows with stray whitespace.
ParseLines ==
  { MkLine(<< <<"1">>, <<"2">>, <<"3", ".", "5">>, <<"8">> >>),
    MkLine(<< <<"1">>, <<"2">>, <<"3", ".", "5">>, <<"x">> >>),
    MkLine(<< <<"2">>, <<"1">>, <<"4">>, <<"9">> >>),
    MkLine(<< <<SP, "3">>, <<"1", SP>>, <<"-", "1", ".", "0">>, <<"8">> >>),
    MkLine(<< <<"x">> >>),
    MkLine(<< <<>> >>),
    MkLine(<< <<"1">>, <<"2">>, <<"3", ".", "5">> >>),
    MkLine(<< <<"1">>, <<"2">>, <<"3", ".", "5">>, <<"8">>, <<"8">> >>),
    MkLine(<< <<"1">>, <<"x">>, <<"3", ".", "5">>, <<"8">> >>),
    MkLine(<< <<"1", ".", "5">>, <<"2">>, <<"3">>, <<"8">> >>),
    MkLine(<< <<"1">>, <<"2">>, <<".">>, <<"8">> >>),
    MkLine(<< <<"1">>, <<"2">>, <<"3", ".", "5">>, <<>> >>),
    MkLine(<< <<>>, <<"1">>, <<"2">>, <<"3", ".", "5">>, <<"8">> >>),
    MkLine(<< <<>>, <<"1">>, <<"2">>, <<"3", ".", "5">> >>) }

ParseFiles == UNION {[1..n -> ParseLines] : n \in 0..MaxLines}

\* The text of a line without its line terminator, and its tab-separated
\* fields as they stand in the file.
LineText(line) ==
  IF line # <<>> /\ line[Len(line)] = NL THEN SubSeq(line, 1, Len(line) - 1) ELSE line
RawFields(line) == Split(LineText(line))

\* Files for two constructions that differ in the timestamps only: rows
\* made of three fields and a timestamp (a number, a word, or nothing), and
\* rows that are not of four fields.
StampBodies ==
  { << <<"1">>, <<"2">>, <<"3", ".", "5">> >>,
    << <<"2">>, <<"1">>, <<"4">> >>,
    << <<"1">>, <<"x">>, <<"3", ".", "5">> >> }
Stamps == { <<"8">>, <<"x">>, <<>> }
StampLines ==
  {MkLine(Append(b, t)) : b \in StampBodies, t \in Stamps}
    \cup { MkLine(<< <<"x">> >>),
           MkLine(<< <<>>, <<"1">>, <<"2">>, <<"3", ".", "5">>, <<"8">> >>) }
StampFiles == UNION {[1..n -> StampLines] : n \in 0..MaxStampLines}

\* The line with t as its fourth field, when it has four tab-separated
\* fields; any other line as it is.
WithStamp(line, t) ==
  LET fs == RawFields(line)
  IN  IF Len(fs) = 4 THEN MkLine(<<fs[1], fs[2], fs[3], t>>) ELSE line

\* The i-th row of a sample ratings file: rows 2m-1 and 2m are equal, so
\* the file holds equal records.
Digit(n) == <<DigitChars[n + 1]>>
SampleUser(i) == (i + 1) \div 2
SampleLine(i) ==
  MkLine(<< Digit(SampleUser(i)), Digit(7 - SampleUser(i)),
            Digit(SampleUser(i) + 2) \o <<".", "5">>, Digit(8) >>)
\* A header row that is no rating, then n rows.
SampleFile(n) == <<MkLine(<< <<"x">> >>)>> \o [i \in 1..n |-> SampleLine(i)]
SampleFiles == {SampleFile(n) : n \in 0..MaxRecords}

\* Lines for max_id: ratings with positive, zero and negative ids, ratings
\* with a field that is no number, rows that are not of four fields.
IdLines ==
  { MkLine(<< <<"1">>, <<"2">>, <<"3", ".", "5">>, <<"8">> >>),
    MkLine(<< <<"3">>, <<"1">>, <<"4">>, <<"9">> >>),
    MkLine(<< <<"0">>, <<"0">>, <<"2">>, <<"8">> >>),
    MkLine(<< <<"-", "2">>, <<"-", "1">>, <<"1", ".", "0">>, <<"8">> >>),
    MkLine(<< <<"x">>, <<"2">>, <<"3", ".", "5">>, <<"8">> >>),
    MkLine(<< <<"2">>, <<"x">>, <<"3">>, <<"8">> >>),
    MkLine(<< <<"1">>, <<"2">>, <<".">>, <<"8">> >>),
    MkLine(<< <<"9">>, <<"9">>, <<"3", ".", "5">> >>),
    MkLine(<< <<"8">>, <<"8">>, <<"3", ".", "5">>, <<>> >>),
    MkLine(<< <<>>, <<"7">>, <<"6">>, <<"3", ".", "5">>, <<"8">> >>) }
IdFiles == UNION {[1..n -> IdLines] : n \in 0..MaxLines}

\* The files u1.base and u1.test that get_data reads: sample files, or a
\* file with a rating that is no number.
TrainFiles ==
  SampleFiles \cup {<<MkLine(<< <<"1">>, <<"2">>, <<".">>, <<"8">> >>)>>}
\* Values passed as train's batch_size.
TrainArgs == (1..MaxBatch) \cup {TrainBatchSize}

\* The values of labels and predictions, and the shapes of pred: a column
\* (one prediction per row, as the networks give) or two per row.
RmseVals == {Fin(0), Fin(1), Fin(3), NaN, Inf(1)}
PredWidths == {1, 2}
LabelInputs == UNION {[1..n -> RmseVals] : n \in 0..MaxLen}
PredInputs ==
  UNION {[1..r -> [1..c -> RmseVals]] :
           <<r, c>> \in {rc \in (0..MaxLen) \X PredWidths : rc[1] * rc[2] <= MaxLen}}

(***************************************************************************)
(* State.                                                                  *)
(***************************************************************************)
VARIABLES
  file,           \* the lines of the file named by fname
  arg_batch_size, \* the batch_size argument of DataIter(fname, batch_size)
  it,             \* "none": not constructed, "ok": the DataIter exists,
                  \* "fault": the constructor raised ValueError
  batch_size,     \* self.batch_size
  data,           \* self.data
  origin,         \* ghost: origin[j] is the line data[j] was read from
  provide_data,   \* self.provide_data
  provide_label,  \* self.provide_label
  gen,            \* the generator made by __iter__ that the caller holds
  started,        \* ghost: a batch was delivered and reset not called since
  batch,          \* the Batch yielded last, or NoBatch
  label,          \* RMSE's argument label: a one-dimensional array
  pred,           \* RMSE's argument pred: a two-dimensional array, by rows
  rm,             \* the call of RMSE: its place (pc) and its locals
  prev,           \* history: the arguments and the outcome of the call made
                  \* before the present one, or NoPrev
  tr,             \* the call of train: its place (pc) and its locals
  ids             \* the call of max_id: its outcome, or NoIds

vars == <<file, arg_batch_size, it, batch_size, data, origin, provide_data,
          provide_label, gen, started, batch, label, pred, rm, prev, tr, ids>>

objVars == <<it, batch_size, data, origin, provide_data, provide_label>>
iterVars == <<gen, started, batch>>
rmseVars == <<label, pred, rm>>
callVars == <<prev, tr, ids>>

NoObject ==
  /\ batch_size = 0
  /\ data = <<>>
  /\ origin = <<>>
  /\ provide_data = <<>>
  /\ provide_label = <<>>

\* DataIter(fname, batch_size): the whole constructor.  When a line raises,
\* the exception leaves the constructor and no object is bound.
Construct ==
  /\ it = "none"
  /\ LET r == ReadLines(file, 1, <<>>, <<>>)
     IN  IF r.fault
         THEN /\ it' = "fault"
              /\ UNCHANGED <<batch_size, data, origin, provide_data, provide_label>>
         ELSE /\ it' = "ok"
              /\ batch_size' = arg_batch_size
              /\ data' = r.data
              /\ origin' = r.origin
              /\ provide_data' = IterProvideData(arg_batch_size)
              /\ provide_label' = IterProvideLabel(batch_size')
  /\ UNCHANGED <<file, arg_batch_size, iterVars, rmseVars, callVars>>

\* The outcome of a construction: whether it raised, and the object made.
Constructed ==
  [it |-> it, batch_size |-> batch_size, data |-> data,
   provide_data |-> provide_data, provide_label |-> provide_label]

\* DataIter is to be constructed once more, from a file that differs from
\* the first in the fourth fields of its lines of four fields only.  prev
\* keeps the first file and the outcome of the first construction.
Refile ==
  /\ it # "none"
  /\ prev = NoPrev
  /\ prev' = [file |-> file, outcome |-> Constructed]
  /\ \E ts \in [1..Len(file) -> Stamps] :
       file' = [i \in 1..Len(file) |-> WithStamp(file[i], ts[i])]
  /\ it' = "none"
  /\ batch_size' = 0
  /\ data' = <<>>
  /\ origin' = <<>>
  /\ provide_data' = <<>>
  /\ provide_label' = <<>>
  /\ UNCHANGED <<arg_batch_size, iterVars, rmseVars, tr, ids>>

\* iter(self): __iter__ is a generator function, so every call returns a new
\* generator, its loop not yet started.  The caller holds one generator at a
\* time, as a for loop over the DataIter does (FeedForward.fit runs one such
\* loop per epoch): a new call lets go of the generator held before, at
\* whatever point that one is.
Iter ==
  /\ it = "ok"
  /\ gen' = NewGenerator(started)
  /\ UNCHANGED <<file, arg_batch_size, objVars, started, batch, rmseVars,
                 callVars>>

\* The Batch one turn of the outer loop builds from the records at `pos`
\* (0-based positions of self.data).  Ghosts: k, the loop variable; nth,
\* the number of batches its generator yielded before it; restart, its
\* generator's; clean, reset was not called between the making of its
\* generator and the yield; src, the origins of its records; fresh, reset
\* was not called since the yield.
MakeBatch(g, pos) ==
  LET users == [i \in 1..Len(pos) |-> data[pos[i] + 1][1]]
      items == [i \in 1..Len(pos) |-> data[pos[i] + 1][2]]
      scores == [i \in 1..Len(pos) |-> data[pos[i] + 1][3]]
  IN  [data_names |-> DataNames,
       data |-> <<NDArray(users), NDArray(items)>>,
       label_names |-> LabelNames,
       label |-> <<NDArray(scores)>>,
       k |-> g.k, nth |-> g.n_out, restart |-> g.restart,
       clean |-> ~g.dirty,
       src |-> [i \in 1..Len(pos) |-> origin[pos[i] + 1]],
       fresh |-> TRUE]

\* The positions the inner loop reads for group k, in the order read.
Positions(k, bs) ==
  LET R == InnerRange(bs)
  IN  [i \in 1..Cardinality(R) |-> RecordIndex(k, bs, i - 1)]

\* next(gen): the body runs to its next yield, or to its end
\* (StopIteration), or raises IndexError on self.data[j].
GenNext ==
  /\ it = "ok"
  /\ gen.st \in {"created", "running"}
  /\ LET nb == IF gen.st = "created" THEN NumBatches(Len(data), batch_size)
               ELSE gen.nb
         pos == Positions(gen.k, batch_size)
     IN  IF gen.k >= nb
         THEN /\ gen' = [gen EXCEPT !.st = "done", !.nb = nb]
              /\ UNCHANGED <<started, batch>>
         ELSE IF \E i \in 1..Len(pos) : pos[i] >= Len(data)
         THEN /\ gen' = [gen EXCEPT !.st = "raised", !.nb = nb]
              /\ UNCHANGED <<started, batch>>
         ELSE LET b == MakeBatch(gen, pos)
                  got == {b.src[i] : i \in 1..Len(b.src)}
              IN  /\ batch' = b
                  /\ started' = TRUE
                  /\ gen' = [gen EXCEPT !.st = "running", !.nb = nb,
                                        !.k = NextK(gen.k),
                                        !.n_out = gen.n_out + 1,
                                        !.seen = gen.seen \cup got,
                                        !.twice = gen.twice \/ gen.seen \cap got # {}]
  /\ UNCHANGED <<file, arg_batch_size, objVars, rmseVars, callVars>>

\* self.reset(): random.shuffle(self.data), in place.  Nothing else of the
\* object is touched; a running generator reads the new order from its next
\* group on.
Reset ==
  /\ it = "ok"
  /\ \E order \in ShuffleOrders(Len(data)) :
       /\ data' = [j \in 1..Len(data) |-> data[order[j]]]
       /\ origin' = [j \in 1..Len(data) |-> origin[order[j]]]
  /\ gen' = IF gen.st = "none" THEN gen ELSE [gen EXCEPT !.dirty = TRUE]
  /\ started' = FALSE
  /\ batch' = IF batch = NoBatch THEN batch ELSE [batch EXCEPT !.fresh = FALSE]
  /\ UNCHANGED <<file, arg_batch_size, it, batch_size, provide_data,
                 provide_label, rmseVars, callVars>>

\* RMSE(label, pred) up to the loop: ret = 0.0, n = 0.0, pred flattened,
\* range(len(label)) made.
RmseEnter ==
  /\ rm.pc = "idle"
  /\ rm' = LET flat == Flatten(pred)
           IN  [pc |-> "loop", flat |-> flat, ret |-> Fin(0), n |-> 0, i |-> 0,
                range |-> LoopBound(label, flat)]
  /\ UNCHANGED <<file, arg_batch_size, objVars, iterVars, label, pred,
                 callVars>>

\* One turn of: for i in range(len(label)).  pred[i] past the end raises
\* IndexError, which leaves RMSE.
RmseStep ==
  /\ rm.pc = "loop"
  /\ rm.i < rm.range
  /\ rm' = IF InBounds(rm.i, Len(rm.flat))
           THEN [rm EXCEPT !.ret = FAdd(rm.ret, SquaredError(label[rm.i + 1],
                                                              rm.flat[rm.i + 1])),
                           !.n = NextCount(rm.n),
                           !.i = rm.i + 1]
           ELSE [pc |-> "fault", error |-> "IndexError"]
  /\ UNCHANGED <<file, arg_batch_size, objVars, iterVars, label, pred,
                 callVars>>

\* return math.sqrt(ret / n): float division by 0.0 raises
\* ZeroDivisionError.
RmseReturn ==
  /\ rm.pc = "loop"
  /\ rm.i = rm.range
  /\ rm' = IF rm.n = 0
           THEN [pc |-> "fault", error |-> "ZeroDivisionError"]
           ELSE [pc |-> "done", n |-> rm.n, ret |-> rm.ret,
                 value |-> SqrtOfMean(rm.ret, rm.n)]
  /\ UNCHANGED <<file, arg_batch_size, objVars, iterVars, label, pred,
                 callVars>>

\* The outcome of a call of RMSE: the value returned or the error raised.
RmseOutcome(r) ==
  IF r.pc = "done" THEN [returned |-> TRUE, value |-> r.value]
  ELSE [returned |-> FALSE, error |-> r.error]

\* RMSE(b, a) after RMSE(a, b) has ended: the two arguments change places.
\* The sequence b, the flattened prediction of the first call, is the label
\* of the second; the sequence a is its prediction, a one-dimensional array
\* that pred.flatten() leaves as it is.  prev keeps the first call.
RmseSwap ==
  /\ rm.pc \in {"done", "fault"}
  /\ prev = NoPrev
  /\ prev' = [label |-> label, pred |-> pred, outcome |-> RmseOutcome(rm)]
  /\ label' = Flatten(pred)
  /\ pred' = <<label>>
  /\ rm' = RmseIdle
  /\ UNCHANGED <<file, arg_batch_size, objVars, iterVars, tr, ids>>

\* max_id(fname): the whole function.
MaxId ==
  /\ ids = NoIds
  /\ ids' = MaxIdLines(file, 1, 0, 0)
  /\ UNCHANGED <<file, arg_batch_size, objVars, iterVars, rmseVars, prev, tr>>

\* train(network, batch_size, num_epoch, learning_rate) is called: the
\* parameter batch_size holds the argument (arg remembers it), and the model
\* is made.
TrainCall ==
  /\ tr.pc = "idle"
  /\ \E bs \in TrainArgs :
       tr' = [pc |-> "called", base |-> tr.base, test |-> tr.test,
              arg |-> bs, batch_size |-> bs]
  /\ UNCHANGED <<file, arg_batch_size, objVars, iterVars, rmseVars, prev, ids>>

\* batch_size = 64
TrainAssign ==
  /\ tr.pc = "called"
  /\ tr' = [tr EXCEPT !.pc = "assigned",
                      !.batch_size = BatchSizeAssigned(tr.batch_size)]
  /\ UNCHANGED <<file, arg_batch_size, objVars, iterVars, rmseVars, prev, ids>>

\* train, test = get_data(batch_size): DataIter('./ml-100k/u1.base',
\* batch_size), then DataIter('./ml-100k/u1.test', batch_size); a ValueError
\* of either leaves train.
TrainGetData ==
  /\ tr.pc = "assigned"
  /\ LET a == NewDataIter(tr.base, tr.batch_size)
         b == NewDataIter(tr.test, tr.batch_size)
     IN  tr' = IF a.fault \/ b.fault
               THEN [pc |-> "fault", base |-> tr.base, test |-> tr.test,
                     arg |-> tr.arg, batch_size |-> tr.batch_size]
               ELSE [pc |-> "data", base |-> tr.base, test |-> tr.test,
                     arg |-> tr.arg, batch_size |-> tr.batch_size,
                     train_iter |-> a, test_iter |-> b]
  /\ UNCHANGED <<file, arg_batch_size, objVars, iterVars, rmseVars, prev, ids>>

\* model.fit(X = train, eval_data = test, eval_metric = RMSE,
\* batch_end_callback = mx.callback.Speedometer(batch_size, 20000/batch_size))
\* is entered: its arguments are made.
TrainFit ==
  /\ tr.pc = "data"
  /\ tr' = [pc |-> "fit", base |-> tr.base, test |-> tr.test,
            arg |-> tr.arg, batch_size |-> tr.batch_size,
            train_iter |-> tr.train_iter, test_iter |-> tr.test_iter,
            speedometer |-> Speedometer(tr.batch_size)]
  /\ UNCHANGED <<file, arg_batch_size, objVars, iterVars, rmseVars, prev, ids>>

\* train is to be called once more, on the same files.  prev keeps the
\* first call as it ended.
TrainAgain ==
  /\ tr.pc \in {"fit", "fault"}
  /\ prev = NoPrev
  /\ prev' = tr
  /\ tr' = [pc |-> "idle", base |-> tr.base, test |-> tr.test]
  /\ UNCHANGED <<file, arg_batch_size, objVars, iterVars, rmseVars, ids>>

InitIterVars ==
  /\ gen = NoGen
  /\ started = FALSE
  /\ batch = NoBatch

InitRmseIdle ==
  /\ label = <<>>
  /\ pred = <<>>
  /\ rm = RmseIdle

InitCallVars ==
  /\ prev = NoPrev
  /\ tr = TrainIdle
  /\ ids = NoIds

Init ==
  /\ file \in SampleFiles
  /\ arg_batch_size \in 1..MaxBatch
  /\ it = "none"
  /\ NoObject
  /\ InitIterVars
  /\ InitRmseIdle
  /\ InitCallVars

Next ==
  \/ Construct
  \/ Iter
  \/ GenNext
  \/ Reset

Spec == Init /\ [][Next]_vars

InitParse ==
  /\ file \in ParseFiles
  /\ arg_batch_size \in 1..MaxBatch
  /\ it = "none"
  /\ NoObject
  /\ InitIterVars
  /\ InitRmseIdle
  /\ InitCallVars

NextParse == Construct

SpecParse == InitParse /\ [][NextParse]_vars

\* Two constructions from files that differ in the timestamps only.
InitStamp ==
  /\ file \in StampFiles
  /\ arg_batch_size = 1
  /\ it = "none"
  /\ NoObject
  /\ InitIterVars
  /\ InitRmseIdle
  /\ InitCallVars

NextStamp ==
  \/ Construct
  \/ Refile

SpecStamp == InitStamp /\ [][NextStamp]_vars

InitRMSE ==
  /\ file = <<>>
  /\ arg_batch_size = 1
  /\ it = "none"
  /\ NoObject
  /\ InitIterVars
  /\ label \in LabelInputs
  /\ pred \in PredInputs
  /\ rm = RmseIdle
  /\ InitCallVars

NextRMSE ==
  \/ RmseEnter
  \/ RmseStep
  \/ RmseReturn

SpecRMSE == InitRMSE /\ [][NextRMSE]_vars

\* max_id and DataIter on the same file, in either order.
InitIds ==
  /\ file \in IdFiles
  /\ arg_batch_size = 1
  /\ it = "none"
  /\ NoObject
  /\ InitIterVars
  /\ InitRmseIdle
  /\ InitCallVars

NextIds ==
  \/ MaxId
  \/ Construct

SpecIds == InitIds /\ [][NextIds]_vars

\* Two calls of train, the files u1.base and u1.test being what they are.
InitTrain ==
  /\ file = <<>>
  /\ arg_batch_size = 1
  /\ it = "none"
  /\ NoObject
  /\ InitIterVars
  /\ InitRmseIdle
  /\ prev = NoPrev
  /\ tr \in [pc : {"idle"}, base : TrainFiles, test : TrainFiles]
  /\ ids = NoIds

NextTrain ==
  \/ TrainCall
  \/ TrainAssign
  \/ TrainGetData
  \/ TrainFit
  \/ TrainAgain

SpecTrain == InitTrain /\ [][NextTrain]_vars

\* A call of RMSE and then the call with the arguments exchanged.
NextSwap ==
  \/ RmseEnter
  \/ RmseStep
  \/ RmseReturn
  \/ RmseSwap

SpecSwap == InitRMSE /\ [][NextSwap]_vars

(***************************************************************************)
(* Claims about the constructor (checked under SpecParse).                 *)
(***************************************************************************)
\* The lines with exactly 4 tab-separated fields, as they stand in the file,
\* and after leading and trailing whitespace is stripped from the line.
RawFourFieldLines == {i \in 1..Len(file) : Len(RawFields(file[i])) = 4}
FourFieldLines == {i \in 1..Len(file) : Len(Split(Strip(file[i]))) = 4}

IsIncreasing(s) == \A j \in 1..Len(s) : \A k \in 1..Len(s) : j < k => s[j] < s[k]
Range(s) == {s[j] : j \in 1..Len(s)}

\* C4 as stated: a constructed DataIter holds one record per line with exactly
\* 4 tab-separated fields, and every other line was skipped.
C4_AsStated ==
  it = "ok" => /\ Len(data) = Cardinality(RawFourFieldLines)
               /\ Range(origin) = RawFourFieldLines

\* C4, amended: fields are counted after leading and trailing whitespace
\* (tabs included) is stripped from the line.  A constructed DataIter holds
\* exactly one record per line that then has 4 fields, in the order of the
\* lines, each the parse of its own line; a line with another number of
\* fields never raises.
C4_ParsedRecords ==
  /\ it = "ok" =>
       /\ Len(data) = Cardinality(FourFieldLines)
       /\ Len(origin) = Len(data)
       /\ Range(origin) = FourFieldLines
       /\ IsIncreasing(origin)
       /\ \A j \in 1..Len(data) :
            LET tks == Split(Strip(file[origin[j]]))
            IN  data[j] = <<ParseInt(tks[1]).val, ParseInt(tks[2]).val,
                            ParseFloat(tks[3]).val>>
  /\ it = "fault" => FourFieldLines # {}

C4_Witness ==
  /\ it = "ok"
  /\ Len(file) = 3
  /\ Len(data) = 2
  /\ origin = <<1, 3>>
  /\ data[1] # data[2]

\* Python's grammar of an integer and of a decimal literal, stated on the
\* text: optional blanks, an optional sign, digits (for a float with at
\* most one point among them), optional blanks.
Core(tok, lo, hi) == SubSeq(tok, lo, hi)
Blank(tok, S) == \A i \in S : IsSpace(tok[i])
IsIntLiteral(tok) ==
  \E lo \in 1..Len(tok) : \E hi \in lo..Len(tok) :
    /\ Blank(tok, 1..(lo - 1)) /\ Blank(tok, (hi + 1)..Len(tok))
    /\ \E first \in {lo, lo + 1} :
         /\ first <= hi
         /\ first = lo + 1 => tok[lo] \in {"+", "-"}
         /\ \A i \in first..hi : tok[i] \in Digits
IsFloatLiteral(tok) ==
  \E lo \in 1..Len(tok) : \E hi \in lo..Len(tok) :
    /\ Blank(tok, 1..(lo - 1)) /\ Blank(tok, (hi + 1)..Len(tok))
    /\ \E first \in {lo, lo + 1} :
         /\ first <= hi
         /\ first = lo + 1 => tok[lo] \in {"+", "-"}
         /\ \A i \in first..hi : tok[i] \in Digits \cup {"."}
         /\ \E i \in first..hi : tok[i] \in Digits
         /\ Cardinality({i \in first..hi : tok[i] = "."}) <= 1

\* The lines with 4 fields of which the user id, the item id or the rating
\* is malformed.
MalformedLines ==
  {i \in FourFieldLines :
     LET tks == Split(Strip(file[i]))
     IN  ~IsIntLiteral(tks[1]) \/ ~IsIntLiteral(tks[2]) \/ ~IsFloatLiteral(tks[3])}

Floor(n, bs) == CHOOSE q \in 0..n : q * bs <= n /\ n < (q + 1) * bs

\* The origins of the records past the last complete group of the current
\* order.
RemainderOrigins ==
  {origin[j] : j \in (Floor(Len(data), batch_size) * batch_size + 1)..Len(data)}

\* C1: a pass yields exactly floor(record_count / batch_size) batches (never
\* more, and that many when it ends), never reads past the records, and
\* yields no record of the remainder of the current order.
C1_BatchCount ==
  it = "ok" /\ gen.st # "none" =>
    /\ gen.st # "raised"
    /\ gen.n_out <= Floor(Len(data), batch_size)
    /\ gen.st = "done" => gen.n_out = Floor(Len(data), batch_size)
    /\ ~gen.dirty => gen.seen \cap RemainderOrigins = {}
    /\ ~gen.dirty /\ gen.st = "done" =>
         gen.seen \cup RemainderOrigins = Range(origin)
    /\ batch # NoBatch /\ batch.fresh => Range(batch.src) \cap RemainderOrigins = {}

\* 3 records in groups of 2: the pass has ended after 1 batch, 1 record left.
C1_Witness ==
  /\ it = "ok"
  /\ gen.st = "done"
  /\ ~gen.dirty
  /\ Len(data) = 3
  /\ batch_size = 2
  /\ gen.n_out = 1
  /\ Cardinality(RemainderOrigins) = 1

\* C2: in a pass with no reset during it, the batch yielded after nth others
\* holds the records at positions nth*batch_size .. nth*batch_size +
\* batch_size - 1 of the record order, in that order, and user, item and
\* score at each place of the batch are those of one record.
C2_BatchIsGroup ==
  batch # NoBatch /\ batch.clean /\ batch.fresh =>
    /\ Len(batch.src) = batch_size
    /\ \A i \in 1..batch_size :
         LET j == batch.nth * batch_size + i
         IN  /\ j <= Len(data)
             /\ batch.data[1].vals[i] = data[j][1]
             /\ batch.data[2].vals[i] = data[j][2]
             /\ batch.label[1].vals[i] = data[j][3]
             /\ batch.src[i] = origin[j]

\* The third batch of a pass in groups of 1, after a reset before the pass.
C2_Witness ==
  /\ batch # NoBatch
  /\ batch.clean /\ batch.fresh
  /\ batch.nth = 2
  /\ batch_size = 1
  /\ ~IsIncreasing(origin)
  /\ batch.src = <<origin[3]>>

\* C3: every batch yielded, in any pass and whatever resets were called, has
\* user, item and score sequences of exactly batch_size elements.
C3_BatchLengths ==
  batch # NoBatch =>
    /\ Len(batch.data) = 2
    /\ Len(batch.label) = 1
    /\ Len(batch.data[1].vals) = batch_size
    /\ Len(batch.data[2].vals) = batch_size
    /\ Len(batch.label[1].vals) = batch_size

\* A batch of a pass during which reset was called, the records not a
\* multiple of the batch size.
C3_Witness ==
  /\ batch # NoBatch
  /\ ~batch.clean
  /\ batch_size = 2
  /\ Len(data) = 3

\* The number of places of sequence s that hold x.
Count(s, x) == Cardinality({j \in 1..Len(s) : s[j] = x})

\* The records the constructor parsed, in file order.
Parsed == ReadLines(file, 1, <<>>, <<>>)

\* C5: whatever resets were called, self.data is a permutation of the
\* records parsed at construction (same count, same multiset, every record
\* still the triple of its line), and batch_size, provide_data and
\* provide_label are as the constructor set them.
C5_ResetOnlyPermutes ==
  it = "ok" =>
    LET p == Parsed
        pdata == p.data
        porigin == p.origin
    IN
    /\ Len(data) = Len(pdata)
    /\ \A x \in Range(data) \cup Range(pdata) :
         Count(data, x) = Count(pdata, x)
    /\ Len(origin) = Len(data)
    /\ Range(origin) = Range(porigin)
    /\ \A j \in 1..Len(data) :
         \E m \in 1..Len(pdata) :
           porigin[m] = origin[j] /\ pdata[m] = data[j]
    /\ batch_size = arg_batch_size
    /\ provide_data = << <<"user", <<arg_batch_size>> >>, <<"item", <<arg_batch_size>> >> >>
    /\ provide_label = << <<"score", <<arg_batch_size>> >> >>

\* Three records, two of them equal, in an order a reset has changed.
C5_Witness ==
  /\ it = "ok"
  /\ Len(data) = 3
  /\ data # Parsed.data
  /\ ~IsIncreasing(origin)

\* C6 as stated: once a pass has delivered a batch, no pass started after it
\* without a reset in between delivers the first group.
C6_AsStated ==
  ~(batch # NoBatch /\ batch.restart /\ batch.k = 0)

\* C6, amended: a pass cannot be rewound, and every call of __iter__ starts
\* a new pass at the first group, reset or no reset.  The batch a pass
\* yields after nth others is group nth, a generator not yet run stands at
\* group 0, and one that has run stands at the group after those it yielded,
\* whatever resets were called meanwhile.
C6_PassesOnlyMoveForward ==
  /\ batch # NoBatch => batch.k = batch.nth
  /\ gen.st = "created" => gen.k = 0 /\ gen.n_out = 0
  /\ gen.st \in {"running", "done"} => gen.k = gen.n_out

\* A pass started without a reset since the last batch delivers the first
\* group; no reset was called at all.
C6_Witness ==
  /\ batch # NoBatch
  /\ batch.restart
  /\ batch.k = 0
  /\ batch.clean /\ batch.fresh
  /\ IsIncreasing(origin)
  /\ Len(data) = 3

\* C8: the DataIter's provide_data is [('user', (batch_size,)), ('item',
\* (batch_size,))] and its provide_label [('score', (batch_size,))], and
\* every Batch yielded reports the same names, order and shapes through its
\* own provide_data and provide_label.
C8_ShapeMetadata ==
  it = "ok" =>
    /\ provide_data = << <<"user", <<batch_size>> >>, <<"item", <<batch_size>> >> >>
    /\ provide_label = << <<"score", <<batch_size>> >> >>
    /\ batch # NoBatch =>
         /\ BatchProvideData(batch) = provide_data
         /\ BatchProvideLabel(batch) = provide_label

C8_Witness ==
  /\ batch # NoBatch
  /\ batch_size = 3
  /\ BatchProvideData(batch) = << <<"user", <<3>> >>, <<"item", <<3>> >> >>
  /\ BatchProvideLabel(batch) = << <<"score", <<3>> >> >>

\* C13: in a pass, whatever resets are called between its batches,
\* no stored record (a tuple of self.data, told from an equal one by the
\* line it was read from) is delivered in more than one batch.
C13_AsStated ==
  gen.st # "none" => ~gen.twice

(***************************************************************************)
(* Claims about RMSE (checked under SpecRMSE).                             *)
(***************************************************************************)
Ended == rm.pc \in {"done", "fault"}
Zero == [k |-> "sqrt", num |-> 0, den |-> 1]
AllFinite(s) == \A i \in 1..Len(s) : s[i].k = "fin"

\* C9 as stated: RMSE(x, x) returns 0 for any sequence x.
C9_AsStated ==
  Ended /\ Flatten(pred) = label => rm.pc = "done" /\ rm.value = Zero

\* C9, amended: for any non-empty sequence x of finite numbers, RMSE(x, x)
\* keeps the sum of squared differences at 0 through the loop and returns 0.
C9_SelfErrorZero ==
  Flatten(pred) = label /\ label # <<>> /\ AllFinite(label) =>
    /\ rm.pc # "fault"
    /\ rm.pc = "loop" => rm.ret = Fin(0)
    /\ rm.pc = "done" => rm.ret = Fin(0) /\ rm.value = Zero

C9_Witness ==
  /\ rm.pc = "done"
  /\ Flatten(pred) = label
  /\ Len(label) = 2
  /\ label[1] # label[2]
  /\ AllFinite(label)
  /\ rm.value = Zero

\* The sum of the squared differences of the first n places.
RECURSIVE SumSq(_, _, _)
SumSq(lab, flat, n) ==
  IF n = 0 THEN Fin(0)
  ELSE LET d == FSub(lab[n], flat[n])
       IN  FAdd(SumSq(lab, flat, n - 1), FMul(d, d))

\* C10 as stated: RMSE fails whenever label and prediction differ in length.
C10_AsStated ==
  Ended /\ Len(Flatten(pred)) # Len(label) => rm.pc = "fault"

\* C10, amended: RMSE fails (IndexError) when the prediction is shorter than
\* the label.  When it is longer RMSE does not fail for that: it returns the
\* value computed from the first len(label) predictions and ignores the
\* rest, or, the label being empty, fails with ZeroDivisionError.
C10_LengthMismatch ==
  Ended =>
    LET flat == Flatten(pred)
    IN  /\ Len(flat) < Len(label) => rm.pc = "fault" /\ rm.error = "IndexError"
        /\ Len(flat) > Len(label) /\ label # <<>> =>
             /\ rm.pc = "done"
             /\ rm.value = SqrtOfMean(SumSq(label, flat, Len(label)), Len(label))
        /\ Len(flat) > Len(label) /\ label = <<>> =>
             rm.pc = "fault" /\ rm.error = "ZeroDivisionError"

\* Two labels, one prediction: the first turn of the loop passes, the second
\* raises.
C10_Witness ==
  /\ rm.pc = "fault"
  /\ rm.error = "IndexError"
  /\ Len(label) = 2
  /\ Len(Flatten(pred)) = 1

\* C16: with an empty label RMSE never returns: the loop body does not run
\* (no turn is counted, no IndexError is raised, whatever pred holds), n is
\* 0 at the division and the call ends in ZeroDivisionError.  With a
\* non-empty label n counts the turns of the loop, it is len(label) when
\* the division happens, and the division does not fail.
C16_EmptyLabelDividesByZero ==
  /\ rm.pc = "loop" => rm.n = rm.i /\ rm.i <= Len(label)
  /\ label = <<>> =>
       /\ rm.pc # "done"
       /\ rm.pc = "loop" => rm.n = 0 /\ rm.ret = Fin(0)
       /\ rm.pc = "fault" => rm.error = "ZeroDivisionError"
  /\ label # <<>> =>
       /\ rm.pc = "loop" /\ rm.i = rm.range => rm.n = Len(label)
       /\ rm.pc = "done" => rm.n = Len(label)
       /\ rm.pc = "fault" => rm.error = "IndexError"

\* An empty label with a prediction that is not empty: the call has ended
\* in ZeroDivisionError.
C16_Witness ==
  /\ label = <<>>
  /\ Flatten(pred) # <<>>
  /\ rm.pc = "fault"
  /\ rm.error = "ZeroDivisionError"

(***************************************************************************)
(* Claims about two calls of RMSE (checked under SpecSwap).                *)
(***************************************************************************)
\* C11: for two sequences a and b of equal length, RMSE(b, a) ends as
\* RMSE(a, b) did: it returns the same value, or, both sequences being
\* empty, raises the same error; and through its loop the sum of squares
\* and the count are those of RMSE(a, b) over the same places.
C11_Symmetric ==
  prev # NoPrev /\ Len(prev.label) = Len(Flatten(prev.pred)) =>
    /\ rm.pc = "loop" =>
         /\ rm.ret = SumSq(prev.label, Flatten(prev.pred), rm.i)
         /\ rm.n = rm.i
    /\ Ended => RmseOutcome(rm) = prev.outcome

\* Two sequences of two different numbers each, different from one another:
\* both calls have returned the same value, which is not 0.
C11_Witness ==
  /\ prev # NoPrev
  /\ rm.pc = "done"
  /\ Len(label) = 2
  /\ Len(prev.label) = 2
  /\ label # prev.label
  /\ AllFinite(label) /\ AllFinite(prev.label)
  /\ RmseOutcome(rm) = prev.outcome
  /\ rm.value # Zero

(***************************************************************************)
(* Claims about two constructions (checked under SpecStamp).               *)
(***************************************************************************)
\* The fourth field of line i of f is empty or whitespace only.
BlankStamp(f, i) == Strip(RawFields(f[i])[4]) = <<>>

\* The lines of f with four tab-separated fields.
RawFour(f) == {i \in 1..Len(f) : Len(RawFields(f[i])) = 4}

\* f and g differ in the fourth fields of their lines of four fields at
\* most.
DifferInStampsOnly(f, g) ==
  /\ Len(f) = Len(g)
  /\ RawFour(f) = RawFour(g)
  /\ \A i \in 1..Len(f) :
       IF i \in RawFour(f)
       THEN \A c \in 1..3 : RawFields(f[i])[c] = RawFields(g[i])[c]
       ELSE f[i] = g[i]

\* C12 as stated: two files that differ only in the fourth field of their
\* lines of four fields give the same result of construction.
C12_AsStated ==
  prev # NoPrev /\ it # "none" /\ DifferInStampsOnly(prev.file, file) =>
    Constructed = prev.outcome

\* C12, amended: two files that differ only in the fourth field of their
\* lines of four fields, and not in whether that field is empty or blank,
\* give the same result of construction (the same records, or the same
\* failure); and the record stored for a line of four fields is
\* (int(field1), int(field2), float(field3)).
C12_TimestampDiscarded ==
  /\ prev # NoPrev /\ it # "none" /\ DifferInStampsOnly(prev.file, file)
     /\ (\A i \in RawFour(file) : BlankStamp(file, i) <=> BlankStamp(prev.file, i))
     => Constructed = prev.outcome
  /\ it = "ok" =>
       \A j \in 1..Len(data) :
         origin[j] \in RawFour(file) =>
           LET fs == RawFields(file[origin[j]])
           IN  data[j] = <<ParseInt(fs[1]).val, ParseInt(fs[2]).val,
                           ParseFloat(fs[3]).val>>

\* Two files of two rows that differ in both timestamps, one of them no
\* number: both constructions stored the same two records.
C12_Witness ==
  /\ prev # NoPrev
  /\ it = "ok"
  /\ Len(data) = 2
  /\ data[1] # data[2]
  /\ Constructed = prev.outcome
  /\ RawFour(file) = {1, 2}
  /\ \A i \in {1, 2} : RawFields(file[i])[4] # RawFields(prev.file[i])[4]
  /\ \E i \in {1, 2} : ~ParseInt(RawFields(file[i])[4]).ok

(***************************************************************************)
(* Claims about train (checked under SpecTrain).                           *)
(***************************************************************************)
\* What a call of train built: its two iterators and, once made, its
\* Speedometer; or the error that left it.
Built(t) ==
  IF t.pc = "fault" THEN <<"fault">>
  ELSE IF t.pc = "data" THEN <<t.train_iter, t.test_iter>>
  ELSE <<t.train_iter, t.test_iter, t.speedometer>>

\* C14: whatever value is passed as batch_size, both iterators train builds
\* have batch size 64 (and shapes (64,)), the Speedometer is made with 64
\* and 20000/64 = 312, and a second call with another batch_size, ended as
\* far as the first, has built the same.
C14_TrainIgnoresBatchSize ==
  /\ tr.pc \in {"assigned", "data", "fit", "fault"} => tr.batch_size = 64
  /\ tr.pc \in {"data", "fit"} =>
       /\ tr.train_iter.batch_size = 64
       /\ tr.test_iter.batch_size = 64
       /\ tr.train_iter.provide_label = << <<"score", <<64>> >> >>
       /\ tr.test_iter.provide_label = << <<"score", <<64>> >> >>
       /\ tr.train_iter.provide_data = << <<"user", <<64>> >>, <<"item", <<64>> >> >>
       /\ tr.test_iter.provide_data = << <<"user", <<64>> >>, <<"item", <<64>> >> >>
  /\ tr.pc = "fit" => tr.speedometer = [batch_size |-> 64, frequent |-> 312]
  /\ prev # NoPrev /\ tr.pc = prev.pc => Built(tr) = Built(prev)

\* Two calls with different batch sizes, neither of them 64, on files of
\* different numbers of ratings: both have come to model.fit.
C14_Witness ==
  /\ prev # NoPrev
  /\ tr.pc = "fit"
  /\ prev.pc = "fit"
  /\ tr.arg # prev.arg
  /\ tr.arg # 64 /\ prev.arg # 64
  /\ Len(tr.train_iter.data) = 3
  /\ Len(tr.test_iter.data) = 2
  /\ Built(tr) = Built(prev)

(***************************************************************************)
(* Claims about max_id (checked under SpecIds).                            *)
(***************************************************************************)
\* The largest member of a non-empty set of integers.
Largest(S) == CHOOSE x \in S : \A y \in S : y <= x

\* The user ids and the item ids on the lines of four fields (fields as
\* line.strip().split('\t') gives them, see C4).
UserIds == {ParseInt(Split(Strip(file[i]))[1]).val : i \in FourFieldLines}
ItemIds == {ParseInt(Split(Strip(file[i]))[2]).val : i \in FourFieldLines}

\* The lines of four fields whose user id or item id is no integer.
BadIdLines ==
  {i \in FourFieldLines :
     LET tks == Split(Strip(file[i]))
     IN  ~IsIntLiteral(tks[1]) \/ ~IsIntLiteral(tks[2])}

====
